---------------------------- MODULE Spec2Model ----------------------------
(***************************************************************************)
(* Model of file_classification.py: the import-time construction of the    *)
(* template registry and of the UI, and the request pipeline               *)
(* generate_prompt_handler -> process_prompt (PdfReader, page text         *)
(* extraction, template lookup, render, chat-completion call).             *)
(*                                                                         *)
(* Python strings are TLA+ strings (\o is +).  A value that may be None is *)
(* a record [tag, val]: PyNone or PyStr(s).  The external collaborators    *)
(* (pypdf, the remote service) are inputs: a file is None or a record      *)
(* saying whether it parses and what text each page yields; a remote       *)
(* answer is an error or a list of candidates.  log[i] records, in order,  *)
(* the calls invocation i has made to the collaborators.                   *)
(***************************************************************************)
EXTENDS Naturals, Sequences, FiniteSets, TLC

\* ------------------------------------------------------------- bounds
NumInvocations == 2
MaxPages == 2
MaxChoices == 2

Invocations == 1..NumInvocations

\* ------------------------------------------------------ Python values
PyNone == [tag |-> "NoneType", val |-> ""]

PyStr(s) == [tag |-> "str", val |-> s]

\* str(x) as an f-string field formats it: None gives "None".
Format(x) == IF x = PyNone THEN "None" ELSE x.val

\* sub in s, for Python strings.
Contains(s, sub) ==
    \E n \in 1..(Len(s) + 1) :
        /\ n + Len(sub) - 1 <= Len(s)
        /\ SubSeq(s, n, n + Len(sub) - 1) = sub

Range(seq) == {seq[n] : n \in 1..Len(seq)}

SeqsUpTo(S, n) == UNION {[1..m -> S] : m \in 0..n}

\* ---------------------------------------------------- module constants
SYSTEM_PROMPT ==
    "You are an expert legal document assistant who helps generate professional legal documents.\nAnalyze the user's requirements and enhance them with proper legal language and structure."

MODEL_NAME == "gpt-4o"

MAX_TOKENS == 2000

\* CharacteristicClass = Literal["1a1", "2a1", "3a1"], also the insertion
\* order of the CHARACTERISTIC_DEFINITIONS dict.
CharacteristicClass == <<"1a1", "2a1", "3a1">>

CharacteristicDefinitionsLiteral ==
    [k \in Range(CharacteristicClass) |->
        CASE k = "1a1" -> [name |-> "1a1",
                           template_filename |-> "1a1_prompt.jinja",
                           info |-> "Classification type 1a1 for legal documents"]
          [] k = "2a1" -> [name |-> "2a1",
                           template_filename |-> "2a1_prompt.jinja",
                           info |-> "Classification type 2a1 for legal documents"]
          [] k = "3a1" -> [name |-> "3a1",
                           template_filename |-> "3a1_prompt.jinja",
                           info |-> "Classification type 3a1 for legal documents"]]

DEFAULT_CHARACTERISTIC == "1a1"

\* The template files the definitions name; which of them exist under
\* TEMPLATES_DIR is the environment's choice.
TemplateFiles ==
    {CharacteristicDefinitionsLiteral[k].template_filename :
        k \in Range(CharacteristicClass)}

\* ------------------------------------------------------------ inputs
NoFile == [tag |-> "NoneType", parseable |-> FALSE, pages |-> <<>>]

Pdf(pages) == [tag |-> "file", parseable |-> TRUE, pages |-> pages]

\* An uploaded file PdfReader cannot parse.
NotAPdf == [tag |-> "file", parseable |-> FALSE, pages |-> <<>>]

PageTexts == {"Lorem ", "ipsum"}

Files == {NoFile, NotAPdf} \cup {Pdf(p) : p \in SeqsUpTo(PageTexts, MaxPages)}

\* Values that reach the handler without coming from the dropdown's choices.
BypassKeys == {PyNone, PyStr("9z9")}

Contents == {PyNone, PyStr("CLASSIFIED: Contract"), PyStr("CLASSIFIED: Deed")}

NoResponse == [tag |-> "unset", choices |-> <<>>]

RemoteError == [tag |-> "error", choices |-> <<>>]

Completion(choices) == [tag |-> "completion", choices |-> choices]

Responses ==
    {RemoteError} \cup {Completion(c) : c \in SeqsUpTo(Contents, MaxChoices)}

\* The smaller input sets of the concurrent specification.
ConcurrentFiles == {NoFile, NotAPdf, Pdf(<<"Lorem ">>), Pdf(<<"ipsum", "Lorem ">>)}

ConcurrentKeys == {PyStr("1a1"), PyStr("9z9")}

ConcurrentResponses ==
    {RemoteError,
     Completion(<<PyStr("CLASSIFIED: Contract")>>),
     Completion(<<PyStr("CLASSIFIED: Deed"), PyStr("CLASSIFIED: Contract")>>)}

\* ------------------------------------------------------------- state
VARIABLES
    templates_dir,              \* template files present on disk
    api_key,                    \* whether the environment holds a credential
    main,                       \* position of the module-level code
    client,
    CHARACTERISTIC_DEFINITIONS,
    PROMPT_TEMPLATES,
    CHARACTERISTIC_CHOICES,
    characteristic_dropdown,
    pc,                         \* per invocation: position in the handler
    entry,                      \* "handler" or "process_prompt"
    document_file,
    characteristic,
    document_text,
    page,                       \* next page of reader.pages
    template,
    user_content,
    request,
    response,
    prompt_text,
    result,
    log

registry == <<CHARACTERISTIC_DEFINITIONS, PROMPT_TEMPLATES, CHARACTERISTIC_CHOICES>>

startup == <<templates_dir, api_key, main, client, registry, characteristic_dropdown>>

locals == <<entry, document_file, characteristic, document_text, page, template,
            user_content, request, response, prompt_text, result, log>>

vars == <<startup, pc, locals>>

\* ------------------------------------------------------ result values
Pending == [kind |-> "pending", exc |-> "", val |-> PyNone]

Return(v) == [kind |-> "return", exc |-> "", val |-> v]

Raise(exc, msg) == [kind |-> "raise", exc |-> exc, val |-> PyStr(msg)]

\* template.render(document_text=...): the template applied to the text.
\* The rendered string is kept uninterpreted: it is the pair of the
\* template and the text it was rendered with.
NoContent == [template |-> "", document_text |-> ""]

Render(t, text) == [template |-> t, document_text |-> text]

NoRequest == [model |-> "", system |-> "", user |-> NoContent, max_tokens |-> 0]


\* -------------------------------------------------------------- Init
NoDropdown == [choices |-> <<>>, value |-> ""]

Init ==
    /\ templates_dir \in SUBSET TemplateFiles
    /\ api_key \in BOOLEAN
    /\ main = "client"
    /\ client = "unset"
    /\ CHARACTERISTIC_DEFINITIONS = <<>>
    /\ PROMPT_TEMPLATES = <<>>
    /\ CHARACTERISTIC_CHOICES = <<>>
    /\ characteristic_dropdown = NoDropdown
    /\ pc = [i \in Invocations |-> "idle"]
    /\ entry = [i \in Invocations |-> "handler"]
    /\ document_file = [i \in Invocations |-> NoFile]
    /\ characteristic = [i \in Invocations |-> PyNone]
    /\ document_text = [i \in Invocations |-> ""]
    /\ page = [i \in Invocations |-> 1]
    /\ template = [i \in Invocations |-> ""]
    /\ user_content = [i \in Invocations |-> NoContent]
    /\ request = [i \in Invocations |-> NoRequest]
    /\ response = [i \in Invocations |-> NoResponse]
    /\ prompt_text = [i \in Invocations |-> PyNone]
    /\ result = [i \in Invocations |-> Pending]
    /\ log = [i \in Invocations |-> <<>>]

\* ------------------------------------------------ module-level code
\* load_dotenv(); client = OpenAI(): the constructor raises when the
\* environment holds no credential, and the import stops there.
CreateClient ==
    /\ main = "client"
    /\ IF api_key
         THEN /\ client' = "ready"
              /\ main' = "definitions"
         ELSE /\ client' = client
              /\ main' = "failed"
    /\ UNCHANGED <<templates_dir, api_key, registry, characteristic_dropdown, pc, locals>>

DefineCharacteristics ==
    /\ main = "definitions"
    /\ CHARACTERISTIC_DEFINITIONS' = CharacteristicDefinitionsLiteral
    /\ main' = "templates"
    /\ UNCHANGED <<templates_dir, api_key, client, PROMPT_TEMPLATES,
                   CHARACTERISTIC_CHOICES, characteristic_dropdown, pc, locals>>

\* Variant: a template that is not on disk is skipped instead of stopping
\* the import.
LoadPromptTemplatesSkipMissing ==
    /\ main = "templates"
    /\ PROMPT_TEMPLATES' =
           [k \in {d \in DOMAIN CHARACTERISTIC_DEFINITIONS :
                      CHARACTERISTIC_DEFINITIONS[d].template_filename \in templates_dir} |->
               CHARACTERISTIC_DEFINITIONS[k].template_filename]
    /\ main' = "choices"
    /\ UNCHANGED <<templates_dir, api_key, client, CHARACTERISTIC_DEFINITIONS,
                   CHARACTERISTIC_CHOICES, characteristic_dropdown, pc, locals>>

\* The dict comprehension over CHARACTERISTIC_DEFINITIONS.items():
\* jinja_env.get_template raises TemplateNotFound for a file that is not
\* under TEMPLATES_DIR, and the name PROMPT_TEMPLATES is then never bound.
LoadPromptTemplates ==
    /\ main = "templates"
    /\ IF \A k \in DOMAIN CHARACTERISTIC_DEFINITIONS :
              CHARACTERISTIC_DEFINITIONS[k].template_filename \in templates_dir
         THEN /\ PROMPT_TEMPLATES' =
                     [k \in DOMAIN CHARACTERISTIC_DEFINITIONS |->
                         CHARACTERISTIC_DEFINITIONS[k].template_filename]
              /\ main' = "choices"
         ELSE /\ PROMPT_TEMPLATES' = PROMPT_TEMPLATES
              /\ main' = "failed"
    /\ UNCHANGED <<templates_dir, api_key, client, CHARACTERISTIC_DEFINITIONS,
                   CHARACTERISTIC_CHOICES, characteristic_dropdown, pc, locals>>

\* tuple(CHARACTERISTIC_DEFINITIONS.keys()): the keys in insertion order.
KeysInOrder(d) == SelectSeq(CharacteristicClass, LAMBDA k : k \in DOMAIN d)

SetChoices ==
    /\ main = "choices"
    /\ CHARACTERISTIC_CHOICES' = KeysInOrder(CHARACTERISTIC_DEFINITIONS)
    /\ main' = "ui"
    /\ UNCHANGED <<templates_dir, api_key, client, CHARACTERISTIC_DEFINITIONS,
                   PROMPT_TEMPLATES, characteristic_dropdown, pc, locals>>

\* with gr.Blocks(...): the dropdown and the click binding.
BuildInterface ==
    /\ main = "ui"
    /\ characteristic_dropdown' = [choices |-> CHARACTERISTIC_CHOICES,
                                   value |-> DEFAULT_CHARACTERISTIC]
    /\ main' = "launch"
    /\ UNCHANGED <<templates_dir, api_key, client, registry, pc, locals>>

\* demo.launch(): from here on requests are accepted.
Launch ==
    /\ main = "launch"
    /\ main' = "serving"
    /\ UNCHANGED <<templates_dir, api_key, client, registry,
                   characteristic_dropdown, pc, locals>>

StartUp ==
    \/ CreateClient
    \/ DefineCharacteristics
    \/ LoadPromptTemplates
    \/ SetChoices
    \/ BuildInterface
    \/ Launch

\* ------------------------------------------------------- invocations
Imported == main \in {"launch", "serving"}

\* The keys the dropdown offers, as the values the click event passes on.
OfferedKeys == {PyStr(k) : k \in Range(characteristic_dropdown.choices)}

SelectableKeys == OfferedKeys \cup BypassKeys

\* generate_button.click: the UI calls generate_prompt_handler with the
\* file input's value and the dropdown's value.
Click(i, files, keys) ==
    /\ main = "serving"
    /\ pc[i] = "idle"
    /\ \E f \in files, c \in keys :
          /\ document_file' = [document_file EXCEPT ![i] = f]
          /\ characteristic' = [characteristic EXCEPT ![i] = c]
    /\ entry' = [entry EXCEPT ![i] = "handler"]
    /\ pc' = [pc EXCEPT ![i] = "handler"]
    /\ UNCHANGED <<startup, document_text, page, template, user_content,
                   request, response, prompt_text, result, log>>

\* A caller other than the handler calls process_prompt of the imported module.
CallProcessPrompt(i, files, keys) ==
    /\ Imported
    /\ pc[i] = "idle"
    /\ \E f \in files, c \in keys :
          /\ document_file' = [document_file EXCEPT ![i] = f]
          /\ characteristic' = [characteristic EXCEPT ![i] = c]
    /\ entry' = [entry EXCEPT ![i] = "process_prompt"]
    /\ pc' = [pc EXCEPT ![i] = "process_prompt"]
    /\ UNCHANGED <<startup, document_text, page, template, user_content,
                   request, response, prompt_text, result, log>>

\* Variant: the handler without its check for a missing file.
HandlerWithoutFileCheck(i) ==
    /\ pc[i] = "handler"
    /\ pc' = [pc EXCEPT ![i] = "process_prompt"]
    /\ UNCHANGED <<startup, locals>>

\* generate_prompt_handler up to the call of process_prompt.
HandlerCheckFile(i) ==
    /\ pc[i] = "handler"
    /\ IF document_file[i] = NoFile
         THEN /\ result' = [result EXCEPT
                      ![i] = Return(PyStr("Error: Please upload a document."))]
              /\ pc' = [pc EXCEPT ![i] = "done"]
         ELSE /\ result' = result
              /\ pc' = [pc EXCEPT ![i] = "process_prompt"]
    /\ UNCHANGED <<startup, entry, document_file, characteristic, document_text,
                   page, template, user_content, request, response, prompt_text, log>>

\* Variant: the key is validated on entry, before the file is read.
ProcessPromptValidateFirst(i) ==
    /\ pc[i] = "process_prompt"
    /\ document_text' = [document_text EXCEPT ![i] = ""]
    /\ IF characteristic[i].tag = "str" /\ characteristic[i].val \in DOMAIN PROMPT_TEMPLATES
         THEN /\ pc' = [pc EXCEPT
                      ![i] = IF document_file[i] # NoFile THEN "reader" ELSE "lookup"]
              /\ result' = result
         ELSE /\ pc' = [pc EXCEPT ![i] = "done"]
              /\ result' = [result EXCEPT ![i] =
                      Raise("ValueError",
                            "Unsupported characteristic: " \o Format(characteristic[i]))]
    /\ UNCHANGED <<startup, entry, document_file, characteristic, page, template,
                   user_content, request, response, prompt_text, log>>

\* process_prompt: document_text = ""; if document_file is not None: ...
ProcessPromptStart(i) ==
    /\ pc[i] = "process_prompt"
    /\ document_text' = [document_text EXCEPT ![i] = ""]
    /\ pc' = [pc EXCEPT ![i] = IF document_file[i] # NoFile THEN "reader" ELSE "lookup"]
    /\ UNCHANGED <<startup, entry, document_file, characteristic, page, template,
                   user_content, request, response, prompt_text, result, log>>

\* reader = PdfReader(document_file.name): raises for a file it cannot parse.
OpenPdf(i) ==
    /\ pc[i] = "reader"
    /\ log' = [log EXCEPT ![i] = Append(@, "PdfReader")]
    /\ IF document_file[i].parseable
         THEN /\ page' = [page EXCEPT ![i] = 1]
              /\ pc' = [pc EXCEPT ![i] = "pages"]
              /\ result' = result
         ELSE /\ page' = page
              /\ pc' = [pc EXCEPT ![i] = "done"]
              /\ result' = [result EXCEPT ![i] = Raise("PdfReadError", "")]
    /\ UNCHANGED <<startup, entry, document_file, characteristic, document_text,
                   template, user_content, request, response, prompt_text>>

\* Variant: the page texts are joined with a newline.
ExtractPageWithSeparator(i) ==
    /\ pc[i] = "pages"
    /\ IF page[i] <= Len(document_file[i].pages)
         THEN /\ document_text' = [document_text EXCEPT
                      ![i] = (IF @ = "" THEN "" ELSE @ \o "\n")
                             \o document_file[i].pages[page[i]]]
              /\ page' = [page EXCEPT ![i] = @ + 1]
              /\ log' = [log EXCEPT ![i] = Append(@, "extract_text")]
              /\ pc' = pc
         ELSE /\ pc' = [pc EXCEPT ![i] = "lookup"]
              /\ UNCHANGED <<document_text, page, log>>
    /\ UNCHANGED <<startup, entry, document_file, characteristic, template,
                   user_content, request, response, prompt_text, result>>

\* for page in reader.pages: document_text += page.extract_text()
ExtractPage(i) ==
    /\ pc[i] = "pages"
    /\ IF page[i] <= Len(document_file[i].pages)
         THEN /\ document_text' = [document_text EXCEPT
                      ![i] = @ \o document_file[i].pages[page[i]]]
              /\ page' = [page EXCEPT ![i] = @ + 1]
              /\ log' = [log EXCEPT ![i] = Append(@, "extract_text")]
              /\ pc' = pc
         ELSE /\ pc' = [pc EXCEPT ![i] = "lookup"]
              /\ UNCHANGED <<document_text, page, log>>
    /\ UNCHANGED <<startup, entry, document_file, characteristic, template,
                   user_content, request, response, prompt_text, result>>

\* Variant: an unknown key falls back to the default characteristic's
\* template (PROMPT_TEMPLATES.get(characteristic, default)).
LookupTemplateWithDefault(i) ==
    /\ pc[i] = "lookup"
    /\ log' = [log EXCEPT ![i] = Append(@, "PROMPT_TEMPLATES")]
    /\ template' = [template EXCEPT ![i] =
            IF characteristic[i].tag = "str" /\ characteristic[i].val \in DOMAIN PROMPT_TEMPLATES
              THEN PROMPT_TEMPLATES[characteristic[i].val]
              ELSE PROMPT_TEMPLATES[DEFAULT_CHARACTERISTIC]]
    /\ pc' = [pc EXCEPT ![i] = "render"]
    /\ UNCHANGED <<startup, entry, document_file, characteristic, document_text,
                   page, user_content, request, response, prompt_text, result>>

\* try: template = PROMPT_TEMPLATES[characteristic]
\* except KeyError: raise ValueError(f"Unsupported characteristic: ...")
LookupTemplate(i) ==
    /\ pc[i] = "lookup"
    /\ log' = [log EXCEPT ![i] = Append(@, "PROMPT_TEMPLATES")]
    /\ IF characteristic[i].tag = "str" /\ characteristic[i].val \in DOMAIN PROMPT_TEMPLATES
         THEN /\ template' = [template EXCEPT
                      ![i] = PROMPT_TEMPLATES[characteristic[i].val]]
              /\ pc' = [pc EXCEPT ![i] = "render"]
              /\ result' = result
         ELSE /\ template' = template
              /\ pc' = [pc EXCEPT ![i] = "done"]
              /\ result' = [result EXCEPT ![i] =
                      Raise("ValueError",
                            "Unsupported characteristic: " \o Format(characteristic[i]))]
    /\ UNCHANGED <<startup, entry, document_file, characteristic, document_text,
                   page, user_content, request, response, prompt_text>>

\* user_content = template.render(document_text=document_text)
RenderTemplate(i) ==
    /\ pc[i] = "render"
    /\ log' = [log EXCEPT ![i] = Append(@, "render")]
    /\ user_content' = [user_content EXCEPT ![i] = Render(template[i], document_text[i])]
    /\ pc' = [pc EXCEPT ![i] = "create"]
    /\ UNCHANGED <<startup, entry, document_file, characteristic, document_text,
                   page, template, request, response, prompt_text, result>>

\* Variant: a failed remote call is issued again.
CallClientWithRetry(i, responses) ==
    /\ pc[i] = "create"
    /\ log' = [log EXCEPT ![i] = Append(@, "create")]
    /\ request' = [request EXCEPT ![i] =
            [model |-> MODEL_NAME, system |-> SYSTEM_PROMPT,
             user |-> user_content[i], max_tokens |-> MAX_TOKENS]]
    /\ \E r \in responses :
          /\ response' = [response EXCEPT ![i] = r]
          /\ pc' = [pc EXCEPT ![i] = IF r = RemoteError THEN "create" ELSE "choices"]
    /\ UNCHANGED <<startup, entry, document_file, characteristic, document_text,
                   page, template, user_content, prompt_text, result>>

\* response = client.chat.completions.create(...): the remote service
\* answers with a completion, or the call raises.
CallClient(i, responses) ==
    /\ pc[i] = "create"
    /\ log' = [log EXCEPT ![i] = Append(@, "create")]
    /\ request' = [request EXCEPT ![i] =
            [model |-> MODEL_NAME, system |-> SYSTEM_PROMPT,
             user |-> user_content[i], max_tokens |-> MAX_TOKENS]]
    /\ \E r \in responses :
          /\ response' = [response EXCEPT ![i] = r]
          /\ IF r = RemoteError
               THEN /\ pc' = [pc EXCEPT ![i] = "done"]
                    /\ result' = [result EXCEPT ![i] = Raise("APIError", "")]
               ELSE /\ pc' = [pc EXCEPT ![i] = "choices"]
                    /\ result' = result
    /\ UNCHANGED <<startup, entry, document_file, characteristic, document_text,
                   page, template, user_content, prompt_text>>

\* Variant: the last candidate is taken (choices[-1]).
ReturnLastChoice(i) ==
    /\ pc[i] = "choices"
    /\ IF response[i].choices = <<>>
         THEN /\ result' = [result EXCEPT
                      ![i] = Raise("IndexError", "list index out of range")]
              /\ pc' = [pc EXCEPT ![i] = "done"]
              /\ prompt_text' = prompt_text
         ELSE IF entry[i] = "handler"
                THEN /\ prompt_text' = [prompt_text EXCEPT
                            ![i] = response[i].choices[Len(response[i].choices)]]
                     /\ pc' = [pc EXCEPT ![i] = "format"]
                     /\ result' = result
                ELSE /\ result' = [result EXCEPT ![i] =
                            Return(response[i].choices[Len(response[i].choices)])]
                     /\ pc' = [pc EXCEPT ![i] = "done"]
                     /\ prompt_text' = prompt_text
    /\ UNCHANGED <<startup, entry, document_file, characteristic, document_text,
                   page, template, user_content, request, response, log>>

\* return response.choices[0].message.content: IndexError on an empty
\* list; the content may be None.  The value goes back to the caller.
ReturnFirstChoice(i) ==
    /\ pc[i] = "choices"
    /\ IF response[i].choices = <<>>
         THEN /\ result' = [result EXCEPT
                      ![i] = Raise("IndexError", "list index out of range")]
              /\ pc' = [pc EXCEPT ![i] = "done"]
              /\ prompt_text' = prompt_text
         ELSE IF entry[i] = "handler"
                THEN /\ prompt_text' = [prompt_text EXCEPT ![i] = response[i].choices[1]]
                     /\ pc' = [pc EXCEPT ![i] = "format"]
                     /\ result' = result
                ELSE /\ result' = [result EXCEPT ![i] = Return(response[i].choices[1])]
                     /\ pc' = [pc EXCEPT ![i] = "done"]
                     /\ prompt_text' = prompt_text
    /\ UNCHANGED <<startup, entry, document_file, characteristic, document_text,
                   page, template, user_content, request, response, log>>

\* Variant: the key shown is a module-level "current" key that every
\* invocation overwrites, read back when the text is formatted.
FormatDisplayWithSharedKey(i) ==
    /\ pc[i] = "format"
    /\ \E j \in Invocations :
          /\ pc[j] # "idle"
          /\ result' = [result EXCEPT ![i] =
                 Return(PyStr("Selected characteristic: " \o Format(characteristic[j])
                              \o "\n\n" \o Format(prompt_text[i])))]
    /\ pc' = [pc EXCEPT ![i] = "done"]
    /\ UNCHANGED <<startup, entry, document_file, characteristic, document_text,
                   page, template, user_content, request, response, prompt_text, log>>

\* display_text = f"Selected characteristic: {current_characteristic}\n\n{prompt_text}"
FormatDisplay(i) ==
    /\ pc[i] = "format"
    /\ result' = [result EXCEPT ![i] =
            Return(PyStr("Selected characteristic: " \o Format(characteristic[i])
                         \o "\n\n" \o Format(prompt_text[i])))]
    /\ pc' = [pc EXCEPT ![i] = "done"]
    /\ UNCHANGED <<startup, entry, document_file, characteristic, document_text,
                   page, template, user_content, request, response, prompt_text, log>>

\* The caller has the outcome (the UI shows it); the invocation's locals
\* are gone and the session is idle again.
Finish(i) ==
    /\ pc[i] = "done"
    /\ pc' = [pc EXCEPT ![i] = "idle"]
    /\ entry' = [entry EXCEPT ![i] = "handler"]
    /\ document_file' = [document_file EXCEPT ![i] = NoFile]
    /\ characteristic' = [characteristic EXCEPT ![i] = PyNone]
    /\ document_text' = [document_text EXCEPT ![i] = ""]
    /\ page' = [page EXCEPT ![i] = 1]
    /\ template' = [template EXCEPT ![i] = ""]
    /\ user_content' = [user_content EXCEPT ![i] = NoContent]
    /\ request' = [request EXCEPT ![i] = NoRequest]
    /\ response' = [response EXCEPT ![i] = NoResponse]
    /\ prompt_text' = [prompt_text EXCEPT ![i] = PyNone]
    /\ result' = [result EXCEPT ![i] = Pending]
    /\ log' = [log EXCEPT ![i] = <<>>]
    /\ UNCHANGED startup

\* ---------------------------------------------------- specifications
AllIdle == \A j \in Invocations : pc[j] = "idle"

\* One pipeline run at a time (the UI framework serializes the clicks),
\* over the full input sets.
Next ==
    \/ StartUp
    \/ \E i \in Invocations :
          \/ AllIdle /\ Click(i, Files, SelectableKeys)
          \/ AllIdle /\ CallProcessPrompt(i, Files, SelectableKeys)
          \/ HandlerCheckFile(i)
          \/ ProcessPromptStart(i)
          \/ OpenPdf(i)
          \/ ExtractPage(i)
          \/ LookupTemplate(i)
          \/ RenderTemplate(i)
          \/ CallClient(i, Responses)
          \/ ReturnFirstChoice(i)
          \/ FormatDisplay(i)
          \/ Finish(i)

Spec == Init /\ [][Next]_vars

\* The UI framework runs the sessions' clicks in parallel: any interleaving
\* of the invocations' steps, over the smaller input sets.
NextConcurrent ==
    \/ StartUp
    \/ \E i \in Invocations :
          \/ Click(i, ConcurrentFiles, SelectableKeys \cap ConcurrentKeys)
          \/ HandlerCheckFile(i)
          \/ ProcessPromptStart(i)
          \/ OpenPdf(i)
          \/ ExtractPage(i)
          \/ LookupTemplate(i)
          \/ RenderTemplate(i)
          \/ CallClient(i, ConcurrentResponses)
          \/ ReturnFirstChoice(i)
          \/ FormatDisplay(i)
          \/ Finish(i)

SpecConcurrent == Init /\ [][NextConcurrent]_vars

\* ------------------------------------------------------------ claims
Calls(i) == Range(log[i])

Readable(f) == f.tag = "file" /\ f.parseable

Registered(c) == c.tag = "str" /\ c.val \in DOMAIN PROMPT_TEMPLATES

IsPrefix(s, t) == Len(s) <= Len(t) /\ SubSeq(t, 1, Len(s)) = s

RECURSIVE Concat(_)
Concat(pages) == IF pages = <<>> THEN "" ELSE Head(pages) \o Concat(Tail(pages))

\* The collaborator calls of a complete run on file f, in order.
FullRun(f) ==
    <<"PdfReader">> \o [n \in 1..Len(f.pages) |-> "extract_text"]
        \o <<"PROMPT_TEMPLATES", "render", "create">>

UploadError == Return(PyStr("Error: Please upload a document."))

\* C1: generate_prompt_handler called with document_file = None, whatever
\* the characteristic, returns "Error: Please upload a document." and
\* makes no call to the PDF reader, the template registry, the renderer or
\* the remote client.
C1_NoFileReturnsErrorWithoutCalls ==
    \A i \in Invocations :
        (pc[i] # "idle" /\ entry[i] = "handler" /\ document_file[i] = NoFile) =>
            /\ log[i] = <<>>
            /\ pc[i] \in {"handler", "done"}
            /\ pc[i] = "done" => result[i] = UploadError

C1_Witness ==
    \E i \in Invocations :
        /\ pc[i] = "done"
        /\ entry[i] = "handler"
        /\ document_file[i] = NoFile
        /\ characteristic[i] = PyStr("9z9")
        /\ result[i] = UploadError

\* C2: when a sub-step of generate_prompt_handler fails on a supplied file
\* (extraction, template lookup or the remote call), the handler still
\* returns a text string; no failure leaves it as an exception.
C2_FailuresAreReturnedAsText ==
    \A i \in Invocations :
        (pc[i] = "done" /\ entry[i] = "handler" /\ document_file[i] # NoFile) =>
            /\ result[i].kind = "return"
            /\ result[i].val.tag = "str"

\* C3: for a readable file and a characteristic that is no key of the
\* registry (None included), process_prompt raises the 'Unsupported
\* characteristic' ValueError whose message holds the key, and neither
\* renders a template nor calls the remote service.
C3_UnsupportedKeyRaises ==
    \A i \in Invocations :
        (pc[i] # "idle" /\ Readable(document_file[i]) /\ ~Registered(characteristic[i])) =>
            /\ "render" \notin Calls(i)
            /\ "create" \notin Calls(i)
            /\ template[i] = ""
            /\ user_content[i] = NoContent
            /\ pc[i] = "done" =>
                  /\ result[i].kind = "raise"
                  /\ result[i].exc = "ValueError"
                  /\ Contains(result[i].val.val, "Unsupported characteristic")
                  /\ Contains(result[i].val.val,
                              IF characteristic[i] = PyNone THEN "None"
                              ELSE characteristic[i].val)

C3_Witness ==
    \E i \in Invocations :
        /\ pc[i] = "done"
        /\ Readable(document_file[i])
        /\ Len(document_file[i].pages) = MaxPages
        /\ characteristic[i] = PyNone
        /\ result[i] = Raise("ValueError", "Unsupported characteristic: None")

\* C4: for a readable file, a registered key k and a completion whose first
\* candidate has text t, generate_prompt_handler returns exactly
\* "Selected characteristic: " + k + "\n\n" + t, whatever the later
\* candidates are.
C4_OutputIsKeyAndFirstCandidate ==
    \A i \in Invocations :
        ( /\ pc[i] = "done"
          /\ entry[i] = "handler"
          /\ Readable(document_file[i])
          /\ Registered(characteristic[i])
          /\ response[i].tag = "completion"
          /\ Len(response[i].choices) >= 1
          /\ response[i].choices[1].tag = "str" ) =>
            result[i] = Return(PyStr("Selected characteristic: "
                                     \o characteristic[i].val \o "\n\n"
                                     \o response[i].choices[1].val))

C4_Witness ==
    \E i \in Invocations :
        /\ pc[i] = "done"
        /\ entry[i] = "handler"
        /\ characteristic[i] = PyStr("2a1")
        /\ response[i] = Completion(<<PyStr("CLASSIFIED: Contract"),
                                      PyStr("CLASSIFIED: Deed")>>)
        /\ result[i] = Return(PyStr("Selected characteristic: 2a1\n\nCLASSIFIED: Contract"))

\* C5: whenever requests are accepted, the keys offered to the user are
\* exactly the keys of CHARACTERISTIC_DEFINITIONS and of PROMPT_TEMPLATES,
\* each key has the definition of its own name and that definition's
\* template, loaded from disk, and DEFAULT_CHARACTERISTIC is one of them;
\* with a template file missing the import never completes and no request
\* is accepted.
C5_RegistryCompleteOrNoService ==
    /\ (main = "serving" \/ ~AllIdle) =>
          /\ Range(characteristic_dropdown.choices) = DOMAIN CHARACTERISTIC_DEFINITIONS
          /\ Range(CHARACTERISTIC_CHOICES) = DOMAIN CHARACTERISTIC_DEFINITIONS
          /\ Len(CHARACTERISTIC_CHOICES) = Cardinality(DOMAIN CHARACTERISTIC_DEFINITIONS)
          /\ DOMAIN PROMPT_TEMPLATES = DOMAIN CHARACTERISTIC_DEFINITIONS
          /\ \A k \in DOMAIN CHARACTERISTIC_DEFINITIONS :
                /\ CHARACTERISTIC_DEFINITIONS[k].name = k
                /\ PROMPT_TEMPLATES[k] = CHARACTERISTIC_DEFINITIONS[k].template_filename
                /\ PROMPT_TEMPLATES[k] \in templates_dir
          /\ DEFAULT_CHARACTERISTIC \in Range(CHARACTERISTIC_CHOICES)
          /\ characteristic_dropdown.value = DEFAULT_CHARACTERISTIC
    /\ ~(TemplateFiles \subseteq templates_dir) =>
          /\ main \in {"client", "definitions", "templates", "failed"}
          /\ AllIdle

C5_Witness ==
    /\ main = "serving"
    /\ \E i \in Invocations : pc[i] = "render" /\ characteristic[i] = PyStr("3a1")

C5_WitnessStartUpFails ==
    /\ main = "failed"
    /\ api_key
    /\ templates_dir = TemplateFiles \ {"2a1_prompt.jinja"}

\* C6: a malformed completion (no candidates, or a first candidate without
\* text) ends the invocation in the remote-call error, neither in an
\* IndexError nor in a success-formatted output.
C6_MalformedResponseIsRemoteError ==
    \A i \in Invocations :
        ( /\ pc[i] = "done"
          /\ entry[i] = "handler"
          /\ response[i].tag = "completion"
          /\ \/ response[i].choices = <<>>
             \/ response[i].choices[1] = PyNone ) =>
            /\ result[i].kind = "raise"
            /\ result[i].exc = "APIError"

\* C7: an invocation of generate_prompt_handler on a supplied file calls
\* its collaborators in the order PdfReader, extract_text per page, template
\* lookup, render, remote call, each step at most once: the remote call
\* comes only after extraction and rendering succeeded, and nothing is
\* called again after a failure.
C7_StepsInOrderAtMostOnce ==
    \A i \in Invocations :
        (pc[i] # "idle" /\ entry[i] = "handler" /\ document_file[i] # NoFile) =>
            /\ IsPrefix(log[i], FullRun(document_file[i]))
            /\ "create" \in Calls(i) =>
                  /\ document_file[i].parseable
                  /\ user_content[i] # NoContent
            /\ result[i].kind = "raise" => pc[i] = "done"

C7_Witness ==
    \E i \in Invocations :
        /\ pc[i] = "done"
        /\ entry[i] = "handler"
        /\ Len(document_file[i].pages) = MaxPages
        /\ result[i] = Raise("APIError", "")
        /\ log[i] = FullRun(document_file[i])

\* What the handler yields for file f, key c and remote answer r alone.
OwnOutcome(f, c, r) ==
    IF f = NoFile THEN UploadError
    ELSE IF ~f.parseable THEN Raise("PdfReadError", "")
    ELSE IF ~Registered(c)
        THEN Raise("ValueError", "Unsupported characteristic: " \o Format(c))
    ELSE IF r = RemoteError THEN Raise("APIError", "")
    ELSE IF r.choices = <<>> THEN Raise("IndexError", "list index out of range")
    ELSE Return(PyStr("Selected characteristic: " \o c.val \o "\n\n"
                      \o Format(r.choices[1])))

OwnInputsOnly ==
    \A i \in Invocations :
        /\ pc[i] = "done" =>
              result[i] = OwnOutcome(document_file[i], characteristic[i], response[i])
        /\ "create" \in Calls(i) =>
              request[i].user = Render(PROMPT_TEMPLATES[characteristic[i].val],
                                       Concat(document_file[i].pages))

\* C8: under any interleaving of concurrent invocations the registry keeps
\* its start-up value, and each invocation's request and outcome come from
\* its own file, key and remote answer only.
C8_RegistryFixedAndInvocationsIsolated ==
    [][ /\ main = "serving" => registry' = registry
        /\ OwnInputsOnly' ]_vars

C8_Witness ==
    /\ pc[1] = "done"
    /\ result[1] = Return(PyStr("Selected characteristic: 1a1\n\nCLASSIFIED: Deed"))
    /\ pc[2] = "format"
    /\ characteristic[2] = PyStr("1a1")
    /\ prompt_text[2] = PyStr("CLASSIFIED: Contract")
    /\ document_file[1] # document_file[2]

\* C9: the document text process_prompt passes to the renderer is the page
\* texts joined in page order with nothing between them; with
\* document_file = None it is the empty string, no PDF is opened, and the
\* pipeline goes on to the template lookup and the rendering.
C9_DocumentTextIsPagesInOrder ==
    \A i \in Invocations :
        /\ ("render" \in Calls(i) /\ document_file[i] # NoFile) =>
              user_content[i].document_text = Concat(document_file[i].pages)
        /\ ( /\ entry[i] = "process_prompt"
             /\ document_file[i] = NoFile
             /\ pc[i] \notin {"idle", "process_prompt"} ) =>
              /\ document_text[i] = ""
              /\ "PdfReader" \notin Calls(i)
              /\ "extract_text" \notin Calls(i)
              /\ pc[i] # "lookup" => "PROMPT_TEMPLATES" \in Calls(i)
              /\ (Registered(characteristic[i]) /\ pc[i] \notin {"lookup", "render"}) =>
                    /\ "render" \in Calls(i)
                    /\ user_content[i].document_text = ""

C9_Witness ==
    \E i \in Invocations :
        /\ pc[i] = "create"
        /\ document_file[i] = Pdf(<<"ipsum", "Lorem ">>)
        /\ user_content[i].document_text = "ipsumLorem "

C9_WitnessNoFile ==
    \E i \in Invocations :
        /\ pc[i] = "create"
        /\ entry[i] = "process_prompt"
        /\ document_file[i] = NoFile
        /\ user_content[i] = Render("1a1_prompt.jinja", "")

\* C10: process_prompt looks the key up only after the extraction: with a
\* supplied file and an unsupported key the PDF is opened and every page
\* extracted before the 'Unsupported characteristic' error, and with an
\* unparseable file and an unsupported key the invocation fails with the
\* extraction error and the key is never looked up.
C10_KeyValidatedAfterExtraction ==
    \A i \in Invocations :
        /\ ("PROMPT_TEMPLATES" \in Calls(i) /\ document_file[i] # NoFile) =>
              /\ document_file[i].parseable
              /\ page[i] = Len(document_file[i].pages) + 1
        /\ ( /\ pc[i] = "done"
             /\ document_file[i] # NoFile
             /\ ~Registered(characteristic[i]) ) =>
              IF document_file[i].parseable
                THEN /\ result[i].exc = "ValueError"
                     /\ log[i] = <<"PdfReader">>
                                 \o [n \in 1..Len(document_file[i].pages) |-> "extract_text"]
                                 \o <<"PROMPT_TEMPLATES">>
                ELSE /\ result[i] = Raise("PdfReadError", "")
                     /\ log[i] = <<"PdfReader">>

C10_Witness ==
    \E i \in Invocations :
        /\ pc[i] = "done"
        /\ document_file[i] = NotAPdf
        /\ characteristic[i] = PyStr("9z9")
        /\ result[i] = Raise("PdfReadError", "")

C10_WitnessAllPagesRead ==
    \E i \in Invocations :
        /\ pc[i] = "done"
        /\ Len(document_file[i].pages) = MaxPages
        /\ characteristic[i] = PyStr("9z9")
        /\ result[i].exc = "ValueError"
        /\ Len(log[i]) = MaxPages + 2

=============================================================================
